---- MODULE Spec2Model ----
(***************************************************************************)
(* A model of app.py, the BCIT seat monitor: fetch_html (retry loop),      *)
(* find_level_table, scrape_level4_rows, parse_date_span,                  *)
(* summarize_result, run_check_once with its state files, the monitor      *)
(* loop and the HTTP routes that start a check or report health.           *)
(*                                                                         *)
(* Texts are sequences of tokens: a word, a punctuation mark or a run of   *)
(* white space.  Python's None is the empty tuple and a present value x    *)
(* is the one-element tuple <<x>>.                                         *)
(***************************************************************************)
EXTENDS Integers, Sequences, FiniteSets, TLC

\* ------------------------------------------------------------------ bounds
MaxClock == 2        \* the clock stops ticking after this many ticks
TicksPerDay == 2     \* clock ticks that make one calendar day
MaxFailures == 4     \* no check starts once this many have failed in a row
MaxRows == 2         \* data rows of a table under SpecEval
MaxElems == 3        \* elements of a document under SpecScrape
MaxTableRows == 4    \* rows of a table under SpecScrape

\* ------------------------------------------------------- optional values
None == <<>>
Some(x) == <<x>>
IsNone(o) == o = <<>>
Val(o) == o[1]

\* ------------------------------------------------------------------ texts
SP == " "
Spaces == {" ", "  ", "\n"}
IsSpace(tok) == tok \in Spaces

\* str.lower() on the tokens of the model's vocabulary
LowerMap ==
    ("FULL" :> "full") @@ ("Full" :> "full") @@ ("Fully" :> "fully") @@
    ("Seats" :> "seats") @@ ("Left" :> "left") @@ ("Waitlist" :> "waitlist") @@
    ("Level" :> "level") @@ ("LEVEL" :> "level") @@ ("Schedule" :> "schedule") @@
    ("Status" :> "status") @@ ("Dates" :> "dates") @@ ("TBA" :> "tba") @@
    ("Access" :> "access") @@ ("Denied" :> "denied") @@
    ("Just" :> "just") @@ ("Moment" :> "moment") @@
    ("Jan" :> "jan") @@ ("Feb" :> "feb") @@ ("Mar" :> "mar") @@
    ("Apr" :> "apr") @@ ("May" :> "may") @@ ("Jun" :> "jun") @@
    ("Jul" :> "jul") @@ ("Aug" :> "aug") @@ ("Sep" :> "sep") @@
    ("Oct" :> "oct") @@ ("Nov" :> "nov") @@ ("Dec" :> "dec")
LowerTok(tok) == IF tok \in DOMAIN LowerMap THEN LowerMap[tok] ELSE tok
Lower(text) == [i \in 1..Len(text) |-> LowerTok(text[i])]

\* str.upper() on the tokens a status text is made of
UpperMap ==
    ("full" :> "FULL") @@ ("Full" :> "FULL") @@ ("Fully" :> "FULLY") @@
    ("seats" :> "SEATS") @@ ("Seats" :> "SEATS") @@ ("seat" :> "SEAT") @@
    ("left" :> "LEFT") @@ ("Left" :> "LEFT") @@ ("Waitlist" :> "WAITLIST") @@
    ("booked" :> "BOOKED") @@ ("Status" :> "STATUS") @@ ("TBA" :> "TBA")
UpperTok(tok) == IF tok \in DOMAIN UpperMap THEN UpperMap[tok] ELSE tok
Upper(text) == [i \in 1..Len(text) |-> UpperTok(text[i])]

\* the words joined by single spaces
RECURSIVE Words(_)
Words(ws) ==
    IF Len(ws) = 0 THEN <<>>
    ELSE IF Len(ws) = 1 THEN <<ws[1]>>
    ELSE <<ws[1], SP>> \o Words(Tail(ws))

\* `needle in text` for token sequences
Contains(text, needle) ==
    \E i \in 0..(Len(text) - Len(needle)) :
        \A j \in 1..Len(needle) : text[i + j] = needle[j]

\* int() of a token of decimal digits
IntMap ==
    ("0" :> 0) @@ ("1" :> 1) @@ ("2" :> 2) @@ ("3" :> 3) @@ ("4" :> 4) @@
    ("5" :> 5) @@ ("6" :> 6) @@ ("7" :> 7) @@ ("8" :> 8) @@ ("9" :> 9) @@
    ("01" :> 1) @@ ("02" :> 2) @@ ("03" :> 3) @@ ("04" :> 4) @@ ("05" :> 5) @@
    ("06" :> 6) @@ ("07" :> 7) @@ ("08" :> 8) @@ ("09" :> 9) @@ ("10" :> 10) @@
    ("11" :> 11) @@ ("12" :> 12) @@ ("13" :> 13) @@ ("14" :> 14) @@ ("15" :> 15) @@
    ("16" :> 16) @@ ("17" :> 17) @@ ("18" :> 18) @@ ("19" :> 19) @@ ("20" :> 20) @@
    ("21" :> 21) @@ ("22" :> 22) @@ ("23" :> 23) @@ ("24" :> 24) @@ ("25" :> 25) @@
    ("26" :> 26) @@ ("27" :> 27) @@ ("28" :> 28) @@ ("29" :> 29) @@ ("30" :> 30) @@
    ("31" :> 31) @@ ("2025" :> 2025) @@ ("2026" :> 2026) @@ ("2027" :> 2027)
IsDigits(tok) == tok \in DOMAIN IntMap
IntOf(tok) == IntMap[tok]
OneDigit == {"0", "1", "2", "3", "4", "5", "6", "7", "8", "9"}
FourDigit == {"2025", "2026", "2027"}
NumDigits(tok) ==
    IF tok \in FourDigit THEN 4 ELSE IF tok \in OneDigit THEN 1 ELSE 2
\* str() of a natural number below 10
StrOf(n) == CHOOSE tok \in OneDigit : IntMap[tok] = n
\* "%02d" and "%Y" of strftime
Pad2(n) == CHOOSE tok \in DOMAIN IntMap : NumDigits(tok) = 2 /\ IntMap[tok] = n
Year4(n) == CHOOSE tok \in FourDigit : IntMap[tok] = n

\* a token made of \w characters only
IsWord(tok) == ~IsSpace(tok) /\ tok \notin {",", ":", "-", "???"}

\* --------------------------------------------------------------- calendar
\* a date is <<year, month, day>>
IsLeap(y) == (y % 4 = 0 /\ y % 100 # 0) \/ y % 400 = 0
DaysIn(y, m) ==
    IF m = 2 THEN (IF IsLeap(y) THEN 29 ELSE 28)
    ELSE IF m \in {4, 6, 9, 11} THEN 30 ELSE 31
ValidDate(y, m, d) == m \in 1..12 /\ d >= 1 /\ d <= DaysIn(y, m)
NextDay(date) ==
    IF date[3] < DaysIn(date[1], date[2]) THEN <<date[1], date[2], date[3] + 1>>
    ELSE IF date[2] < 12 THEN <<date[1], date[2] + 1, 1>>
    ELSE <<date[1] + 1, 1, 1>>
\* a < b and a <= b on dates
DateLT(a, b) ==
    \/ a[1] < b[1]
    \/ a[1] = b[1] /\ a[2] < b[2]
    \/ a[1] = b[1] /\ a[2] = b[2] /\ a[3] < b[3]
DateLE(a, b) == a = b \/ DateLT(a, b)

\* datetime.now() when the clock reads 0: the day before the first target intake
EpochDate == <<2026, 1, 4>>
RECURSIVE AddDays(_, _)
AddDays(date, k) == IF k = 0 THEN date ELSE AddDays(NextDay(date), k - 1)
RECURSIVE DaysFrom(_, _)
DaysFrom(a, b) == IF a = b THEN 0 ELSE 1 + DaysFrom(NextDay(a), b)
\* datetime.now() as <<date, time of day>> at clock reading c
DateOf(c) == AddDays(EpochDate, c \div TicksPerDay)
TimeOf(c) == c % TicksPerDay

\* date.strftime("%Y-%m-%d")
IsoDate(date) == <<Year4(date[1]), "-", Pad2(date[2]), "-", Pad2(date[3])>>
\* datetime.fromisoformat of a date-only text: the date, or None when it raises
FromIsoDate(text) ==
    IF /\ Len(text) = 5
       /\ text[2] = "-" /\ text[4] = "-"
       /\ IsDigits(text[1]) /\ NumDigits(text[1]) = 4
       /\ IsDigits(text[3]) /\ NumDigits(text[3]) = 2
       /\ IsDigits(text[5]) /\ NumDigits(text[5]) = 2
       /\ ValidDate(IntOf(text[1]), IntOf(text[3]), IntOf(text[5]))
    THEN Some(<<IntOf(text[1]), IntOf(text[3]), IntOf(text[5])>>)
    ELSE None
\* datetime.now().isoformat() at clock reading c
IsoNow(c) == IsoDate(DateOf(c)) \o <<"T", StrOf(TimeOf(c))>>
\* datetime.fromisoformat of a date-time text, as a clock reading
FromIsoNow(text) ==
    IF Len(text) = 7 /\ text[6] = "T" /\ IsDigits(text[7])
       /\ ~IsNone(FromIsoDate(SubSeq(text, 1, 5)))
    THEN Some(DaysFrom(EpochDate, Val(FromIsoDate(SubSeq(text, 1, 5)))) * TicksPerDay
              + IntOf(text[7]))
    ELSE None

\* --------------------------------------------------------- configuration
\* TARGET_LEVEL, SPECIFIC_INTAKE_KEYWORDS, CHECK_PRE_APRIL_YEAR (defaults)
TARGET_LEVEL == <<"Level", SP, "04">>
SPECIFIC_INTAKE_KEYWORDS ==
    { <<"Jan", SP, "05">>, <<"Feb", SP, "20", ",", SP, "2026">> }
CHECK_PRE_APRIL_YEAR == 2026
\* STALE_AFTER_SEC, in clock ticks
STALE_AFTER_SEC == 1
\* the default of fetch_html's max_attempts
DefaultMaxAttempts == 4
\* len(html) < 2000
MinHtmlLen == 2000
SUSPICIOUS_MARKERS ==
    { <<"attention", SP, "required">>, <<"access", SP, "denied">>,
      <<"just", SP, "a", SP, "moment">>,
      <<"verify", SP, "you", SP, "are", SP, "a", SP, "human">> }

\* ------------------------------------------------------ date-range parser
MonthMap ==
    ("jan" :> 1) @@ ("feb" :> 2) @@ ("mar" :> 3) @@ ("apr" :> 4) @@
    ("may" :> 5) @@ ("jun" :> 6) @@ ("jul" :> 7) @@ ("aug" :> 8) @@
    ("sep" :> 9) @@ ("oct" :> 10) @@ ("nov" :> 11) @@ ("dec" :> 12)
IsMonth(tok) == LowerTok(tok) \in DOMAIN MonthMap
MonthOf(tok) == MonthMap[LowerTok(tok)]

\* text.strip()
RECURSIVE LStrip(_)
LStrip(text) ==
    IF Len(text) > 0 /\ IsSpace(text[1]) THEN LStrip(Tail(text)) ELSE text
RECURSIVE RStrip(_)
RStrip(text) ==
    IF Len(text) > 0 /\ IsSpace(text[Len(text)])
    THEN RStrip(SubSeq(text, 1, Len(text) - 1)) ELSE text
Strip(text) == RStrip(LStrip(text))
\* re.sub(r'\s+', ' ', text): every run of white space becomes one space
RECURSIVE CollapseWs(_)
CollapseWs(text) ==
    IF Len(text) = 0 THEN <<>>
    ELSE IF IsSpace(text[1])
         THEN <<SP>> \o CollapseWs(LStrip(text))
         ELSE <<text[1]>> \o CollapseWs(Tail(text))
\* re.sub(r',(?!\s)', ', ', text): a space after every comma that has none
RECURSIVE CommaSpace(_)
CommaSpace(text) ==
    IF Len(text) = 0 THEN <<>>
    ELSE IF text[1] = "," /\ ~(Len(text) > 1 /\ IsSpace(text[2]))
         THEN <<",", SP>> \o CommaSpace(Tail(text))
         ELSE <<text[1]>> \o CommaSpace(Tail(text))
\* the two substitutions parse_date_span and scrape_level4_rows both apply
NormalizeDateText(text) == CommaSpace(CollapseWs(Strip(text)))

\* the tokens of a text that are not white space
RECURSIVE NonSpace(_)
NonSpace(text) ==
    IF Len(text) = 0 THEN <<>>
    ELSE IF IsSpace(text[1]) THEN NonSpace(Tail(text))
         ELSE <<text[1]>> \o NonSpace(Tail(text))

\* dateutil's parser.parse on the texts of the model: "<month> <day>",
\* "<month> <day> <year>" and "<month> <day>, <year>"; a missing year is the
\* current one; any other text, or a day the month does not have, raises.
Parsed(y, m, d) ==
    IF ValidDate(y, m, d) THEN [ok |-> TRUE, date |-> <<y, m, d>>]
    ELSE [ok |-> FALSE, date |-> <<0, 0, 0>>]
ParseError == [ok |-> FALSE, date |-> <<0, 0, 0>>]
DateutilParse(text, today) ==
    LET w == NonSpace(text) IN
    IF Len(w) >= 2 /\ IsMonth(w[1]) /\ IsDigits(w[2]) /\ NumDigits(w[2]) <= 2
    THEN IF Len(w) = 2 THEN Parsed(today[1], MonthOf(w[1]), IntOf(w[2]))
         ELSE IF Len(w) = 3 /\ IsDigits(w[3]) /\ NumDigits(w[3]) = 4
              THEN Parsed(IntOf(w[3]), MonthOf(w[1]), IntOf(w[2]))
         ELSE IF Len(w) = 4 /\ w[3] = "," /\ IsDigits(w[4]) /\ NumDigits(w[4]) = 4
              THEN Parsed(IntOf(w[4]), MonthOf(w[1]), IntOf(w[2]))
         ELSE ParseError
    ELSE ParseError

\* re.match(r'(\w+\s+\d{1,2})\s+to\s+(\w+\s+\d{1,2}),\s*(\d{4})', cleaned)
SpanMatch(c) ==
    /\ Len(c) >= 11
    /\ IsWord(c[1]) /\ IsSpace(c[2])
    /\ IsDigits(c[3]) /\ NumDigits(c[3]) <= 2
    /\ IsSpace(c[4]) /\ c[5] = "to" /\ IsSpace(c[6])
    /\ IsWord(c[7]) /\ IsSpace(c[8])
    /\ IsDigits(c[9]) /\ NumDigits(c[9]) <= 2
    /\ c[10] = ","
    /\ IF IsSpace(c[11])
       THEN Len(c) >= 12 /\ IsDigits(c[12]) /\ NumDigits(c[12]) = 4
       ELSE IsDigits(c[11]) /\ NumDigits(c[11]) = 4
SpanYear(c) == IF IsSpace(c[11]) THEN c[12] ELSE c[11]

\* cleaned.split(' to ')[0]
RECURSIVE BeforeTo(_)
BeforeTo(c) ==
    IF Len(c) < 3 THEN c
    ELSE IF c[1] = SP /\ c[2] = "to" /\ c[3] = SP THEN <<>>
    ELSE <<c[1]>> \o BeforeTo(Tail(c))

\* parse_date_span: raised, or (start, end, year) with None for an absent value
NoDates == [raised |-> FALSE, start |-> None, end |-> None, year |-> None]
DateRaise == [raised |-> TRUE, start |-> None, end |-> None, year |-> None]
parse_date_span(date_text, today) ==
    LET cleaned == NormalizeDateText(date_text) IN
    IF SpanMatch(cleaned)
    THEN LET y == SpanYear(cleaned)
             s == DateutilParse(<<cleaned[1], SP, cleaned[3], SP, y>>, today)
             e == DateutilParse(<<cleaned[7], SP, cleaned[9], SP, y>>, today)
         IN IF s.ok /\ e.ok
            THEN [raised |-> FALSE, start |-> Some(s.date), end |-> Some(e.date),
                  year |-> Some(IntOf(y))]
            ELSE DateRaise
    ELSE LET dt == DateutilParse(BeforeTo(cleaned), today) IN
         IF dt.ok
         THEN [raised |-> FALSE, start |-> Some(dt.date), end |-> None,
               year |-> Some(dt.date[1])]
         ELSE NoDates

\* ------------------------------------------------------------ status text
\* re.search(r'(\d+)\s+seats?\s+left', status_text, re.I)
SeatsAt(text, i) ==
    /\ i + 4 <= Len(text)
    /\ IsDigits(text[i]) /\ IsSpace(text[i + 1])
    /\ LowerTok(text[i + 2]) \in {"seat", "seats"}
    /\ IsSpace(text[i + 3])
    /\ LowerTok(text[i + 4]) = "left"
_extract_seats(status_text) ==
    IF \E i \in 1..Len(status_text) : SeatsAt(status_text, i)
    THEN LET i == CHOOSE k \in 1..Len(status_text) :
                    /\ SeatsAt(status_text, k)
                    /\ \A j \in 1..(k - 1) : ~SeatsAt(status_text, j)
         IN Some(IntOf(status_text[i]))
    ELSE None
\* "FULL" in status_text.upper()
_is_full(status_text) ==
    \E i \in 1..Len(status_text) : UpperTok(status_text[i]) \in {"FULL", "FULLY"}
\* "seats left" in status_text.lower()
SaysSeatsLeft(status_text) == Contains(Lower(status_text), <<"seats", SP, "left">>)

\* ------------------------------------------------------------------- html
\* A page is [len, elems]: len(html) and its elements in document order; an
\* element is [tag, text, rows], rows being the <tr> of a table and a row the
\* texts of its cells.
Heading(tag, text) == [tag |-> tag, text |-> text, rows |-> <<>>]
Table(rows) == [tag |-> "table", text |-> <<>>, rows |-> rows]
\* the joined texts of a sequence of texts, get_text(" ", strip=True)
RECURSIVE JoinTexts(_)
JoinTexts(texts) ==
    IF Len(texts) = 0 THEN <<>>
    ELSE IF Len(texts) = 1 THEN texts[1]
    ELSE texts[1] \o <<SP>> \o JoinTexts(Tail(texts))
RowTexts(rows) == [i \in 1..Len(rows) |-> JoinTexts(rows[i])]
ElemText(el) == IF el.tag = "table" THEN JoinTexts(RowTexts(el.rows)) ELSE el.text

\* any(s in lower for s in SUSPICIOUS_MARKERS)
LooksBotDefended(html) ==
    \E i \in 1..Len(html.elems) : \E s \in SUSPICIOUS_MARKERS :
        Contains(Lower(ElemText(html.elems[i])), s)

\* DATE_RX.search(text): a month abbreviation, white space, one or two digits
DATE_RX(text) ==
    \E i \in 1..(Len(text) - 2) :
        /\ IsMonth(text[i]) /\ IsSpace(text[i + 1])
        /\ IsDigits(text[i + 2]) /\ NumDigits(text[i + 2]) <= 2

\* find_level_table: the index of the table in html.elems, or None
IsLevelHeading(el) ==
    /\ el.tag \in {"h2", "h3", "h4"}
    /\ Contains(Lower(Strip(el.text)), Lower(TARGET_LEVEL))
TablesAfter(elems, i) == {j \in (i + 1)..Len(elems) : elems[j].tag = "table"}
Min(S) == CHOOSE x \in S : \A y \in S : x <= y
\* mutant: the date-shaped tables are tried before the headings
find_level_table_DatesFirst(html) ==
    LET elems == html.elems
        hs == {i \in 1..Len(elems) :
                  /\ elems[i].tag \in {"h2", "h3", "h4"}
                  /\ Contains(Lower(Strip(elems[i].text)), Lower(TARGET_LEVEL))
                  /\ \E j \in (i + 1)..Len(elems) : elems[j].tag = "table"}
        ts == {j \in 1..Len(elems) :
                  elems[j].tag = "table" /\ DATE_RX(ElemText(elems[j]))}
        first(S) == CHOOSE x \in S : \A y \in S : x <= y
    IN IF ts # {} THEN Some(first(ts))
       ELSE IF hs # {}
            THEN Some(first({j \in (first(hs) + 1)..Len(elems) : elems[j].tag = "table"}))
       ELSE None
find_level_table(html) ==
    LET elems == html.elems
        hs == {i \in 1..Len(elems) :
                  IsLevelHeading(elems[i]) /\ TablesAfter(elems, i) # {}}
        ts == {j \in 1..Len(elems) :
                  elems[j].tag = "table" /\ DATE_RX(ElemText(elems[j]))}
    IN IF hs # {} THEN Some(Min(TablesAfter(elems, Min(hs))))
       ELSE IF ts # {} THEN Some(Min(ts))
       ELSE None

\* ------------------------------------------------------------- row parser
\* the record scrape_level4_rows builds from one row of two or more cells
MakeRecord(status_text, date_text, span) ==
    [status_text |-> status_text,
     date_text |-> NormalizeDateText(date_text),
     start_date_iso |-> IF IsNone(span.start) THEN None ELSE Some(IsoDate(Val(span.start))),
     end_date_iso |-> IF IsNone(span.end) THEN None ELSE Some(IsoDate(Val(span.end))),
     year |-> span.year,
     seats_left |-> _extract_seats(status_text),
     is_full |-> _is_full(status_text)]
\* the loop over rows[1:]: the records, or raised when parse_date_span raises
RECURSIVE ScrapeRows(_, _)
ScrapeRows(rows, today) ==
    IF Len(rows) = 0 THEN [raised |-> FALSE, records |-> <<>>]
    ELSE LET cells == rows[1] IN
         IF Len(cells) < 2 THEN ScrapeRows(Tail(rows), today)
         ELSE LET status_text == Strip(cells[1])
                  date_text == Strip(cells[2])
                  span == parse_date_span(date_text, today)
                  rest == ScrapeRows(Tail(rows), today)
              IN IF span.raised \/ rest.raised
                 THEN [raised |-> TRUE, records |-> <<>>]
                 ELSE [raised |-> FALSE,
                       records |-> <<MakeRecord(status_text, date_text, span)>>
                                      \o rest.records]
\* mutant: the page is not written to last_error.html
scrape_level4_rows_NoCapture(html, today) ==
    LET table == find_level_table(html) IN
    IF IsNone(table)
    THEN [error |-> "No Level 04 table found", records |-> <<>>, captured |-> FALSE]
    ELSE LET rows == html.elems[Val(table)].rows
             got == ScrapeRows(IF Len(rows) = 0 THEN <<>> ELSE Tail(rows), today)
         IN IF got.raised
            THEN [error |-> "ParserError", records |-> <<>>, captured |-> FALSE]
            ELSE [error |-> "", records |-> got.records, captured |-> FALSE]
\* scrape_level4_rows: error is "" on return, else what was raised; captured
\* tells whether last_error.html was written
scrape_level4_rows(html, today) ==
    LET table == find_level_table(html) IN
    IF IsNone(table)
    THEN [error |-> "No Level 04 table found", records |-> <<>>, captured |-> TRUE]
    ELSE LET rows == html.elems[Val(table)].rows
             got == ScrapeRows(IF Len(rows) = 0 THEN <<>> ELSE Tail(rows), today)
         IN IF got.raised
            THEN [error |-> "ParserError", records |-> <<>>, captured |-> FALSE]
            ELSE [error |-> "", records |-> got.records, captured |-> FALSE]

\* -------------------------------------------------------------- evaluator
\* the start date summarize_result reads back from a record, or None
StartOf(rec) ==
    IF IsNone(rec.start_date_iso) THEN None ELSE FromIsoDate(Val(rec.start_date_iso))
\* mutant: start_dt < now_dt, which lets an intake that starts today pass
IsFuture_IncludesToday(rec, today) ==
    /\ ~IsNone(StartOf(rec))
    /\ ~DateLT(Val(StartOf(rec)), today)
\* the record passes the three `continue` tests: dated, and after now
IsFuture(rec, today) ==
    /\ ~IsNone(StartOf(rec))
    /\ ~DateLE(Val(StartOf(rec)), today)
\* any(k in date_text for k in SPECIFIC_INTAKE_KEYWORDS)
MatchesKeyword(rec) ==
    \E k \in SPECIFIC_INTAKE_KEYWORDS : Contains(rec.date_text, k)
\* seats_left is not None or "seats left" in status_text.lower()
ShowsOpen(rec) == ~IsNone(rec.seats_left) \/ SaysSeatsLeft(rec.status_text)
\* mutant: the seat evidence is tested before is_full
Classify_OpenFirst(rec) ==
    IF ShowsOpen(rec) THEN "OPEN"
    ELSE IF rec.is_full THEN "FULL"
    ELSE "UNKNOWN"
\* the if / elif / else that classifies a target intake
Classify(rec) ==
    IF rec.is_full THEN "FULL"
    ELSE IF ShowsOpen(rec) THEN "OPEN"
    ELSE "UNKNOWN"
Qualifies(rec, today) == IsFuture(rec, today) /\ MatchesKeyword(rec)
\* mutant: a full intake is never listed
IsPreApril_SkipsFull(rec, today) ==
    /\ IsFuture(rec, today)
    /\ Val(StartOf(rec))[1] = CHECK_PRE_APRIL_YEAR
    /\ Val(StartOf(rec))[2] <= 3
    /\ ShowsOpen(rec) /\ ~rec.is_full
\* the two tests of the pre-April block
IsPreApril(rec, today) ==
    /\ IsFuture(rec, today)
    /\ Val(StartOf(rec))[1] = CHECK_PRE_APRIL_YEAR
    /\ Val(StartOf(rec))[2] <= 3
    /\ ShowsOpen(rec)
PreAprilEntry(rec) == rec.date_text \o <<":", SP>> \o rec.status_text

RECURSIVE SpecificStatuses(_, _)
SpecificStatuses(records, today) ==
    IF Len(records) = 0 THEN <<>>
    ELSE (IF Qualifies(records[1], today) THEN <<Classify(records[1])>> ELSE <<>>)
         \o SpecificStatuses(Tail(records), today)
RECURSIVE PreAprilOpens(_, _)
PreAprilOpens(records, today) ==
    IF Len(records) = 0 THEN <<>>
    ELSE (IF IsPreApril(records[1], today) THEN <<PreAprilEntry(records[1])>> ELSE <<>>)
         \o PreAprilOpens(Tail(records), today)

\* mutant: the count is appended only to MIXED
RollUp_SuffixOnlyWhenMixed(specific_statuses) ==
    IF Len(specific_statuses) > 0
    THEN IF Cardinality({specific_statuses[i] : i \in 1..Len(specific_statuses)}) = 1
         THEN <<specific_statuses[1]>>
         ELSE <<"MIXED", SP, "(", StrOf(Len(specific_statuses)), SP, "intakes", ")">>
    ELSE <<"UNKNOWN", SP, "(", "no", SP, "match", ")">>
\* the roll-up of the classifications into specific_status
Range(seq) == {seq[i] : i \in 1..Len(seq)}
RollUp(specific_statuses) ==
    IF Len(specific_statuses) > 0
    THEN LET uq == Range(specific_statuses)
             base == IF Cardinality(uq) = 1 THEN <<CHOOSE s \in uq : TRUE>>
                     ELSE <<"MIXED">>
         IN IF Len(specific_statuses) > 1
            THEN base \o <<SP, "(", StrOf(Len(specific_statuses)), SP, "intakes", ")">>
            ELSE base
    ELSE <<"UNKNOWN", SP, "(", "no", SP, "match", ")">>

summarize_result(records, today) ==
    LET specific_statuses == SpecificStatuses(records, today)
        pre_april_opens == PreAprilOpens(records, today)
    IN [specific_status |-> RollUp(specific_statuses),
        pre_april_list |-> pre_april_opens,
        specific_matches_count |-> Len(specific_statuses)]

\* ------------------------------------------------------- pages and replies
STATUS_FULL == <<"FULL">>
STATUS_6_LEFT == Words(<<"6", "seats", "left">>)
STATUS_SEATS_LEFT == Words(<<"Seats", "Left">>)
STATUS_FULL_2_LEFT == Words(<<"Full", "-", "2", "seats", "left">>)
STATUS_WAITLIST == <<"Waitlist">>
DateSpan(m1, d1, m2, d2, y) == Words(<<m1, d1, "to", m2, d2>>) \o <<",", SP, y>>
DATES_JAN_2026 == DateSpan("Jan", "05", "Feb", "20", "2026")
DATES_MAR_2026 == DateSpan("Mar", "02", "Apr", "17", "2026")
DATES_APR_2026 == DateSpan("Apr", "06", "May", "22", "2026")
DATES_JAN_2027 == DateSpan("Jan", "05", "Feb", "20", "2027")
DATES_NOV_2025 == DateSpan("Nov", "03", "Dec", "19", "2025")
DATES_FEB_30 == DateSpan("Feb", "30", "Mar", "20", "2026")
DATES_TBA == <<"TBA">>
\* 'Jan 05 to  Feb 20,2026' as the page may space it
DATES_JAN_2026_RAGGED ==
    <<"Jan", SP, "05", "\n", "to", "  ", "Feb", SP, "20", ",", "2026">>
HeaderRow == << <<"Status">>, <<"Dates">> >>

LevelHeading == Heading("h2", Words(<<"Level", "04">>))
LevelHeadingCaps == Heading("h3", Words(<<"LEVEL", "04", "Schedule">>))
Page(elems) == [len |-> MinHtmlLen, elems |-> elems]
\* one open target intake that starts after March
PageOpen ==
    Page(<<LevelHeading, Table(<<HeaderRow, <<STATUS_6_LEFT, DATES_JAN_2027>> >>)>>)
\* an open and a full target intake
PageMixed ==
    Page(<<LevelHeadingCaps,
           Table(<<HeaderRow, <<STATUS_6_LEFT, DATES_JAN_2027>>,
                   <<STATUS_FULL, DATES_JAN_2026_RAGGED>> >>)>>)
\* no heading: the table is found by its dates; nothing is open
PageFull ==
    Page(<<Heading("h1", <<"Schedule">>),
           Table(<<HeaderRow, <<STATUS_FULL, DATES_JAN_2026>>,
                   <<STATUS_WAITLIST, DATES_APR_2026>>, <<STATUS_WAITLIST>> >>)>>)
\* no target intake, an open intake before April
PagePreApril ==
    Page(<<LevelHeading,
           Table(<<HeaderRow, <<STATUS_SEATS_LEFT, DATES_MAR_2026>>,
                   <<STATUS_6_LEFT, DATES_NOV_2025>>, <<STATUS_6_LEFT, DATES_TBA>> >>)>>)
\* a heading and no table at all
PageNoTable == Page(<<LevelHeading, Heading("h4", <<"TBA">>)>>)
\* a row whose date names the 30th of February
PageBadDate ==
    Page(<<LevelHeading, Table(<<HeaderRow, <<STATUS_6_LEFT, DATES_FEB_30>> >>)>>)
\* a complete page cut short, and two bot-defence pages
PageShort == [len |-> MinHtmlLen - 1, elems |-> PageOpen.elems]
PageChallenge ==
    Page(<<Heading("h1", Words(<<"Just", "a", "Moment">>))>> \o PageOpen.elems)
PageDenied ==
    [len |-> MinHtmlLen - 1, elems |-> <<Heading("h1", Words(<<"Access", "Denied">>))>>]
GoodPages == {PageOpen, PageMixed, PageFull, PagePreApril, PageNoTable, PageBadDate}
BadPages == {PageShort, PageChallenge, PageDenied}

\* what SESSION.get gives: an exception, or a response with status and text
NetworkError == [exc |-> TRUE, status |-> 0, body |-> PageDenied]
HttpReply(status, body) == [exc |-> FALSE, status |-> status, body |-> body]
\* the replies and jitters under Spec, which follows whole checks
Responses == {HttpReply(200, PageChallenge)} \cup {HttpReply(200, p) : p \in GoodPages}
Jitters == {7}
\* the replies and the jitters of random.uniform(0, 1.5), in tenths of a
\* second, under SpecFetch, which follows one call of fetch_html
FetchResponses ==
    {NetworkError}
    \cup {HttpReply(200, p) : p \in GoodPages \cup BadPages}
    \cup {HttpReply(503, PageOpen), HttpReply(404, PageDenied)}
FetchJitters == {0, 7, 14}

\* ------------------------------------------------------------------ state
Threads == {"monitor", "http"}
Tokens == {"", "s3cret", "guess"}

VARIABLES
    clock,            \* datetime.now(), in ticks since the process started
    status_file,      \* STATUS_FILE: None, or the text last written
    failure_file,     \* FAILURE_FILE: None, or the text last written
    started_flag,     \* started.flag exists
    last_error_html,  \* last_error.html: None, or the page last written
    test_token,       \* TEST_TOKEN
    consecutive,      \* history: failed runs since the last successful run
    last_success,     \* history: the clock reading of the last successful run
    http_resp,        \* the last response of the HTTP thread
    http_req,         \* the last request the HTTP thread took: route and token
    pc,               \* where each thread is
    attempt,          \* fetch_html: the loop variable
    requests,         \* fetch_html: calls of SESSION.get in this call
    last_err,         \* fetch_html: last_err
    last_resp,        \* fetch_html: what the last SESSION.get gave
    sleeps,           \* fetch_html: the time.sleep calls, tenths of a second
    html,             \* run_check_once: html
    records,          \* run_check_once: records
    now_dt,           \* summarize_result: now_dt, the date it read
    summary,          \* run_check_once: summary
    n,                \* run_check_once: n of the failure path
    err,              \* run_check_once: the exception caught, None on success
    alerts            \* send_alert calls of the thread's current run

shared == <<clock, status_file, failure_file, started_flag, last_error_html,
            test_token, consecutive, last_success, http_resp, http_req>>
fetch_locals == <<attempt, requests, last_err, last_resp, sleeps>>
run_locals == <<html, records, now_dt, summary, n, err, alerts>>
vars == <<shared, pc, fetch_locals, run_locals>>

\* an exception of fetch_html: its type and the attempt that raised it
UnknownFetchError == [type |-> "Unknown fetch error", attempt |-> 0]
FetchError(type, k) == [type |-> type, attempt |-> k]
NoResponse == [route |-> "", code |-> 0]
NoRequest == [route |-> "", token |-> ""]

Init ==
    /\ clock = 0
    /\ status_file = None
    /\ failure_file = None
    /\ started_flag \in BOOLEAN
    /\ last_error_html = None
    /\ test_token \in {"", "s3cret"}
    /\ consecutive = 0
    /\ last_success = None
    /\ http_resp = NoResponse
    /\ http_req = NoRequest
    /\ pc = [t \in Threads |-> IF t = "monitor" THEN "boot" ELSE "idle"]
    /\ attempt = [t \in Threads |-> 0]
    /\ requests = [t \in Threads |-> 0]
    /\ last_err = [t \in Threads |-> UnknownFetchError]
    /\ last_resp = [t \in Threads |-> None]
    /\ sleeps = [t \in Threads |-> <<>>]
    /\ html = [t \in Threads |-> None]
    /\ records = [t \in Threads |-> None]
    /\ now_dt = [t \in Threads |-> None]
    /\ summary = [t \in Threads |-> None]
    /\ n = [t \in Threads |-> 0]
    /\ err = [t \in Threads |-> None]
    /\ alerts = [t \in Threads |-> <<>>]

\* ---------------------------------------------------------- state helpers
\* time_since_last_success: the age in ticks, or None for float("inf")
time_since_last_success(file, now) ==
    IF IsNone(file) \/ IsNone(FromIsoNow(Val(file))) THEN None
    ELSE Some(now - Val(FromIsoNow(Val(file))))
\* mutant: the count is never read back
get_failure_count_Forgets(file) == 0
\* get_failure_count
get_failure_count(file) ==
    IF IsNone(file) \/ ~IsDigits(Val(file)) THEN 0 ELSE IntOf(Val(file))
\* what update_status_file and set_failure_count leave in their files
StatusWritten(now) == Some(IsoNow(now))
FailureWritten(k) == Some(StrOf(k))
\* mutant: token == TEST_TOKEN alone, which an unset TEST_TOKEN passes
_is_allowed_EmptyTokenPasses(token) == token = test_token
\* _is_allowed
_is_allowed(token) == test_token # "" /\ token = test_token
\* the thread is between a call of run_check_once and its return
InFlight(t) == pc[t] \notin {"boot", "loop", "idle", "returned"}
\* the thread is in a check or still holds the result of one
Busy(t) == pc[t] \notin {"boot", "loop", "idle"}

\* ------------------------------------------------------------- fetch_html
\* mutant: the try block without the test of len(html)
FetchOutcome_NoLengthCheck(resp) ==
    IF resp.exc THEN "ConnectionError"
    ELSE IF resp.status >= 400 THEN "HTTPError"
    ELSE IF LooksBotDefended(resp.body) THEN "RuntimeError"
    ELSE ""
\* the body of the try block: "" when the attempt returns resp.text, else the
\* type of the exception it raises
FetchOutcome(resp) ==
    IF resp.exc THEN "ConnectionError"
    ELSE IF resp.status >= 400 THEN "HTTPError"
    ELSE IF LooksBotDefended(resp.body) \/ resp.body.len < MinHtmlLen
         THEN "RuntimeError"
    ELSE ""
\* mutant: range(1, max_attempts), one pass short
MoreAttempts_StopsEarly(k, max_attempts) == k < max_attempts - 1
\* for attempt in range(1, max_attempts + 1): attempt k is followed by another
MoreAttempts(k, max_attempts) == k < max_attempts
\* sleep_s = 2 * attempt + random.uniform(0, 1.5), in tenths of a second
SleepFor(k, jitter) == 20 * k + jitter

\* the locals of fetch_html at its call and after it has returned or raised
FetchCalled ==
    [attempt |-> 1, requests |-> 0, last_err |-> UnknownFetchError,
     last_resp |-> None, sleeps |-> <<>>]
FetchGone ==
    [attempt |-> 0, requests |-> 0, last_err |-> UnknownFetchError,
     last_resp |-> None, sleeps |-> <<>>]
SetFetchLocals(t, f) ==
    /\ attempt' = [attempt EXCEPT ![t] = f.attempt]
    /\ requests' = [requests EXCEPT ![t] = f.requests]
    /\ last_err' = [last_err EXCEPT ![t] = f.last_err]
    /\ last_resp' = [last_resp EXCEPT ![t] = f.last_resp]
    /\ sleeps' = [sleeps EXCEPT ![t] = f.sleeps]

\* the locals of run_check_once before its call and after its return
RunLocalsGone(t) ==
    /\ html' = [html EXCEPT ![t] = None]
    /\ records' = [records EXCEPT ![t] = None]
    /\ now_dt' = [now_dt EXCEPT ![t] = None]
    /\ summary' = [summary EXCEPT ![t] = None]
    /\ n' = [n EXCEPT ![t] = 0]
    /\ err' = [err EXCEPT ![t] = None]
    /\ alerts' = [alerts EXCEPT ![t] = <<>>]
\* the call run_check_once(): its locals are fresh and fetch_html(URL) begins
CallRunCheckOnce(t) ==
    /\ get_failure_count(failure_file) < MaxFailures
    /\ pc' = [pc EXCEPT ![t] = "fetch"]
    /\ SetFetchLocals(t, FetchCalled)
    /\ RunLocalsGone(t)

\* one pass of the loop of fetch_html: the request, then either the return of
\* the page or the except clause with its sleep; after the last pass the
\* function raises last_err into the except clause of run_check_once
Attempt(t, replies, jitters) ==
    /\ pc[t] = "fetch"
    /\ \E resp \in replies, jitter \in jitters :
        LET k == attempt[t]
            outcome == FetchOutcome(resp)
            e == FetchError(outcome, k)
        IN /\ requests' = [requests EXCEPT ![t] = @ + 1]
           /\ last_resp' = [last_resp EXCEPT ![t] = Some(resp)]
           /\ IF outcome = ""
              THEN /\ html' = [html EXCEPT ![t] = Some(resp.body)]
                   /\ pc' = [pc EXCEPT ![t] = "scrape"]
                   /\ UNCHANGED <<attempt, last_err, sleeps, err>>
              ELSE /\ last_err' = [last_err EXCEPT ![t] = e]
                   /\ sleeps' = [sleeps EXCEPT ![t] = Append(@, SleepFor(k, jitter))]
                   /\ IF MoreAttempts(k, DefaultMaxAttempts)
                      THEN /\ attempt' = [attempt EXCEPT ![t] = k + 1]
                           /\ UNCHANGED <<pc, err>>
                      ELSE /\ pc' = [pc EXCEPT ![t] = "except"]
                           /\ err' = [err EXCEPT ![t] = Some(last_err'[t])]
                           /\ UNCHANGED attempt
                   /\ UNCHANGED html
    /\ UNCHANGED <<shared, records, now_dt, summary, n, alerts>>

\* --------------------------------------------------------- run_check_once
\* records = scrape_level4_rows(html)
Scrape(t) ==
    /\ pc[t] = "scrape"
    /\ LET r == scrape_level4_rows(Val(html[t]), DateOf(clock)) IN
        /\ last_error_html' = IF r.captured THEN html[t] ELSE last_error_html
        /\ IF r.error = ""
           THEN /\ records' = [records EXCEPT ![t] = Some(r.records)]
                /\ pc' = [pc EXCEPT ![t] = "summarize"]
                /\ UNCHANGED err
           ELSE /\ err' = [err EXCEPT ![t] = Some(FetchError(r.error, 0))]
                /\ pc' = [pc EXCEPT ![t] = "except"]
                /\ UNCHANGED records
    /\ SetFetchLocals(t, FetchGone)
    /\ UNCHANGED <<clock, status_file, failure_file, started_flag, test_token,
                   consecutive, last_success, http_resp, http_req>>
    /\ UNCHANGED <<html, now_dt, summary, n, alerts>>

\* summary = summarize_result(records)
Summarize(t) ==
    /\ pc[t] = "summarize"
    /\ now_dt' = [now_dt EXCEPT ![t] = Some(DateOf(clock))]
    /\ summary' = [summary EXCEPT ![t] =
                      Some(summarize_result(Val(records[t]), DateOf(clock)))]
    /\ pc' = [pc EXCEPT ![t] = "update_status"]
    /\ UNCHANGED <<shared, fetch_locals, html, records, n, err, alerts>>

\* update_status_file()
UpdateStatus(t) ==
    /\ pc[t] = "update_status"
    /\ status_file' = StatusWritten(clock)
    /\ last_success' = Some(clock)
    /\ pc' = [pc EXCEPT ![t] = "reset_count"]
    /\ UNCHANGED <<clock, failure_file, started_flag, last_error_html, test_token,
                   consecutive, http_resp, http_req>>
    /\ UNCHANGED <<fetch_locals, run_locals>>

\* set_failure_count(0)
ResetCount(t) ==
    /\ pc[t] = "reset_count"
    /\ failure_file' = FailureWritten(0)
    /\ pc' = [pc EXCEPT ![t] = "seat_alert"]
    /\ UNCHANGED <<clock, status_file, started_flag, last_error_html, test_token,
                   consecutive, last_success, http_resp, http_req>>
    /\ UNCHANGED <<fetch_locals, run_locals>>

\* "OPEN" in summary["specific_status"] or summary["pre_april_list"]
WantsSeatAlert(s) == Contains(s.specific_status, <<"OPEN">>) \/ Len(s.pre_april_list) > 0
\* the seat alert and the return of the success path
SeatAlert(t) ==
    /\ pc[t] = "seat_alert"
    /\ alerts' = [alerts EXCEPT ![t] =
                     IF WantsSeatAlert(Val(summary[t])) THEN Append(@, "seat") ELSE @]
    /\ consecutive' = 0
    /\ pc' = [pc EXCEPT ![t] = "returned"]
    /\ UNCHANGED <<clock, status_file, failure_file, started_flag, last_error_html,
                   test_token, last_success, http_resp, http_req>>
    /\ UNCHANGED <<fetch_locals, html, records, now_dt, summary, n, err>>

\* except Exception as e: n = get_failure_count() + 1
Except(t) ==
    /\ pc[t] = "except"
    /\ n' = [n EXCEPT ![t] = get_failure_count(failure_file) + 1]
    /\ pc' = [pc EXCEPT ![t] = "set_count"]
    /\ SetFetchLocals(t, FetchGone)
    /\ UNCHANGED <<shared, html, records, now_dt, summary, err, alerts>>

\* set_failure_count(n)
SetCount(t) ==
    /\ pc[t] = "set_count"
    /\ failure_file' = FailureWritten(n[t])
    /\ pc' = [pc EXCEPT ![t] = "error_alert"]
    /\ UNCHANGED <<clock, status_file, started_flag, last_error_html, test_token,
                   consecutive, last_success, http_resp, http_req>>
    /\ UNCHANGED <<fetch_locals, run_locals>>

\* mutant: n > 3
ErrorAlertDue_Late(k) == k > 3
\* if n >= 3: send_alert(...)
ErrorAlertDue(k) == k >= 3
\* the error alert and the return of the failure path
ErrorAlert(t) ==
    /\ pc[t] = "error_alert"
    /\ alerts' = [alerts EXCEPT ![t] =
                     IF ErrorAlertDue(n[t]) THEN Append(@, "error") ELSE @]
    /\ consecutive' = consecutive + 1
    /\ pc' = [pc EXCEPT ![t] = "returned"]
    /\ UNCHANGED <<clock, status_file, failure_file, started_flag, last_error_html,
                   test_token, last_success, http_resp, http_req>>
    /\ UNCHANGED <<fetch_locals, html, records, now_dt, summary, n, err>>

RunStep(t) ==
    \/ Attempt(t, Responses, Jitters)
    \/ Scrape(t)
    \/ Summarize(t)
    \/ UpdateStatus(t)
    \/ ResetCount(t)
    \/ SeatAlert(t)
    \/ Except(t)
    \/ SetCount(t)
    \/ ErrorAlert(t)

\* ----------------------------------------------------------- monitor_loop
\* the one-time startup alert and started.flag
MonitorBoot ==
    /\ pc["monitor"] = "boot"
    /\ alerts' = [alerts EXCEPT !["monitor"] =
                     IF started_flag THEN @ ELSE Append(@, "started")]
    /\ started_flag' = TRUE
    /\ pc' = [pc EXCEPT !["monitor"] = "loop"]
    /\ UNCHANGED <<clock, status_file, failure_file, last_error_html, test_token,
                   consecutive, last_success, http_resp, http_req>>
    /\ UNCHANGED <<fetch_locals, html, records, now_dt, summary, n, err>>
\* result_text, summary = run_check_once()
MonitorCheck ==
    /\ pc["monitor"] = "loop"
    /\ CallRunCheckOnce("monitor")
    /\ UNCHANGED <<clock, status_file, failure_file, started_flag, last_error_html,
                   test_token, consecutive, last_success, http_resp, http_req>>
\* the log line and time.sleep(CHECK_INTERVAL_SEC)
MonitorSleep ==
    /\ pc["monitor"] = "returned"
    /\ pc' = [pc EXCEPT !["monitor"] = "loop"]
    /\ RunLocalsGone("monitor")
    /\ UNCHANGED <<shared, fetch_locals>>

\* ------------------------------------------------------------ HTTP routes
Respond(route, code) == [route |-> route, code |-> code]
\* a request: its route and its token parameter, "" when it has none
Request(route, token) == [route |-> route, token |-> token]
\* mutant: age >= STALE_AFTER_SEC is stale
health_StaleAtLimit(file, now) ==
    LET age == time_since_last_success(file, now) IN
    IF IsNone(age) THEN 500
    ELSE IF Val(age) >= STALE_AFTER_SEC THEN 500
    ELSE 200
\* /health: int(age) raises OverflowError for float("inf"), which Flask
\* answers with 500
health(file, now) ==
    LET age == time_since_last_success(file, now) IN
    IF IsNone(age) THEN 500
    ELSE IF Val(age) > STALE_AFTER_SEC THEN 500
    ELSE 200
Health ==
    /\ pc["http"] = "idle"
    /\ http_resp' = Respond("health", health(status_file, clock))
    /\ http_req' = Request("health", "")
    /\ UNCHANGED <<clock, status_file, failure_file, started_flag, last_error_html,
                   test_token, consecutive, last_success>>
    /\ UNCHANGED <<pc, fetch_locals, run_locals>>
\* /scrape-and-email without the token: Forbidden
ScrapeAndEmailForbidden ==
    /\ pc["http"] = "idle"
    /\ \E token \in Tokens :
        /\ ~_is_allowed(token)
        /\ http_req' = Request("scrape-and-email", token)
    /\ http_resp' = Respond("scrape-and-email", 403)
    /\ UNCHANGED <<clock, status_file, failure_file, started_flag, last_error_html,
                   test_token, consecutive, last_success>>
    /\ UNCHANGED <<pc, fetch_locals, run_locals>>
\* /scrape-and-email with the token: result_text, summary = run_check_once()
ScrapeAndEmailCheck ==
    /\ pc["http"] = "idle"
    /\ \E token \in Tokens :
        /\ _is_allowed(token)
        /\ http_req' = Request("scrape-and-email", token)
    /\ CallRunCheckOnce("http")
    /\ UNCHANGED <<clock, status_file, failure_file, started_flag, last_error_html,
                   test_token, consecutive, last_success, http_resp>>
\* the rest of /scrape-and-email: the body reads int(time_since_last_success()),
\* which raises for float("inf"); else the code tells whether send_plain sent
ScrapeAndEmailRespond ==
    /\ pc["http"] = "returned"
    /\ \E sent \in BOOLEAN :
        http_resp' = Respond("scrape-and-email",
                        IF IsNone(time_since_last_success(status_file, clock)) THEN 500
                        ELSE IF sent THEN 200 ELSE 500)
    /\ pc' = [pc EXCEPT !["http"] = "idle"]
    /\ RunLocalsGone("http")
    /\ UNCHANGED <<clock, status_file, failure_file, started_flag, last_error_html,
                   test_token, consecutive, last_success, http_req>>
    /\ UNCHANGED fetch_locals

\* /smtp-test: Forbidden without the token, else the code tells whether
\* send_plain sent the test mail
SmtpTest ==
    /\ pc["http"] = "idle"
    /\ \E token \in Tokens, sent \in BOOLEAN :
        /\ http_req' = Request("smtp-test", token)
        /\ http_resp' = Respond("smtp-test",
                            IF ~_is_allowed(token) THEN 403
                            ELSE IF sent THEN 200 ELSE 500)
    /\ UNCHANGED <<clock, status_file, failure_file, started_flag, last_error_html,
                   test_token, consecutive, last_success>>
    /\ UNCHANGED <<pc, fetch_locals, run_locals>>

\* time passes
Tick ==
    /\ clock < MaxClock
    /\ clock' = clock + 1
    /\ UNCHANGED <<status_file, failure_file, started_flag, last_error_html,
                   test_token, consecutive, last_success, http_resp, http_req>>
    /\ UNCHANGED <<pc, fetch_locals, run_locals>>

\* ---------------------------------------------------------- specifications
\* Spec: the monitor thread and one request thread, with the calls of
\* run_check_once one after another: none starts while a thread is in a check
\* or has yet to use the result of one.
NoRunInFlight == \A t \in Threads : ~Busy(t)
Next ==
    \/ Tick
    \/ MonitorBoot
    \/ NoRunInFlight /\ MonitorCheck
    \/ MonitorSleep
    \/ Health
    \/ ScrapeAndEmailForbidden
    \/ NoRunInFlight /\ ScrapeAndEmailCheck
    \/ ScrapeAndEmailRespond
    \/ SmtpTest
    \/ \E t \in Threads : RunStep(t)
Spec == Init /\ [][Next]_vars

\* SpecFetch: one call of fetch_html, from the call in run_check_once to its
\* return or raise, against every kind of reply and jitter.
InitFetch ==
    /\ clock = 0
    /\ status_file = None
    /\ failure_file = None
    /\ started_flag = TRUE
    /\ last_error_html = None
    /\ test_token = ""
    /\ consecutive = 0
    /\ last_success = None
    /\ http_resp = NoResponse
    /\ http_req = NoRequest
    /\ pc = [t \in Threads |-> IF t = "monitor" THEN "fetch" ELSE "idle"]
    /\ attempt = [t \in Threads |-> IF t = "monitor" THEN FetchCalled.attempt ELSE 0]
    /\ requests = [t \in Threads |-> 0]
    /\ last_err = [t \in Threads |-> UnknownFetchError]
    /\ last_resp = [t \in Threads |-> None]
    /\ sleeps = [t \in Threads |-> <<>>]
    /\ html = [t \in Threads |-> None]
    /\ records = [t \in Threads |-> None]
    /\ now_dt = [t \in Threads |-> None]
    /\ summary = [t \in Threads |-> None]
    /\ n = [t \in Threads |-> 0]
    /\ err = [t \in Threads |-> None]
    /\ alerts = [t \in Threads |-> <<>>]
NextFetch == Attempt("monitor", FetchResponses, FetchJitters)
SpecFetch == InitFetch /\ [][NextFetch]_vars

\* SpecEval: scrape_level4_rows and summarize_result on every table of up to
\* MaxRows rows over the status and date texts below, read at the first and
\* at the last clock reading.
EvalStatuses ==
    {STATUS_FULL, STATUS_6_LEFT, STATUS_SEATS_LEFT, STATUS_FULL_2_LEFT, STATUS_WAITLIST}
EvalDates ==
    {DATES_JAN_2026, DATES_MAR_2026, DATES_APR_2026, DATES_JAN_2027, DATES_NOV_2025,
     DATES_TBA}
EvalRows == {<<s, d>> : s \in EvalStatuses, d \in EvalDates}
EvalTables ==
    UNION {[1..k -> EvalRows] : k \in 0..MaxRows}
EvalPages == {Page(<<LevelHeading, Table(<<HeaderRow>> \o rows)>>) : rows \in EvalTables}
InitEval ==
    /\ clock \in {0, MaxClock}
    /\ status_file = None
    /\ failure_file = None
    /\ started_flag = TRUE
    /\ last_error_html = None
    /\ test_token = ""
    /\ consecutive = 0
    /\ last_success = None
    /\ http_resp = NoResponse
    /\ http_req = NoRequest
    /\ pc = [t \in Threads |-> IF t = "monitor" THEN "scrape" ELSE "idle"]
    /\ \E page \in EvalPages :
        /\ html = [t \in Threads |-> IF t = "monitor" THEN Some(page) ELSE None]
        /\ last_resp = [t \in Threads |->
                          IF t = "monitor" THEN Some(HttpReply(200, page)) ELSE None]
    /\ attempt = [t \in Threads |-> IF t = "monitor" THEN 1 ELSE 0]
    /\ requests = [t \in Threads |-> IF t = "monitor" THEN 1 ELSE 0]
    /\ last_err = [t \in Threads |-> UnknownFetchError]
    /\ sleeps = [t \in Threads |-> <<>>]
    /\ records = [t \in Threads |-> None]
    /\ now_dt = [t \in Threads |-> None]
    /\ summary = [t \in Threads |-> None]
    /\ n = [t \in Threads |-> 0]
    /\ err = [t \in Threads |-> None]
    /\ alerts = [t \in Threads |-> <<>>]
NextEval == Scrape("monitor") \/ Summarize("monitor")
SpecEval == InitEval /\ [][NextEval]_vars

\* ================================================================= claims
\* the exception the claims expect of a rejected reply at attempt k
RejectionOf(resp, k) ==
    [type |-> IF resp.exc THEN "ConnectionError"
              ELSE IF resp.status >= 400 THEN "HTTPError"
              ELSE "RuntimeError",
     attempt |-> k]

\* C1: when every attempt of fetch_html is rejected it makes exactly
\* max_attempts (4) requests, never more and never fewer, and then fails with
\* the error the last attempt raised, not an earlier one and not the
\* placeholder 'Unknown fetch error'.
C1_ExactAttemptsThenLastError ==
    \A t \in Threads :
        /\ requests[t] <= DefaultMaxAttempts
        /\ (pc[t] = "fetch" => requests[t] < DefaultMaxAttempts)
        /\ (pc[t] = "except" /\ requests[t] > 0 =>
                /\ requests[t] = DefaultMaxAttempts
                /\ err[t] = Some(RejectionOf(Val(last_resp[t]), DefaultMaxAttempts)))
\* fetch_html has raised an HTTP error after four requests
C1_Witness ==
    /\ pc["monitor"] = "except"
    /\ requests["monitor"] = 4
    /\ Val(err["monitor"]).type = "HTTPError"

\* a reply the claim lets fetch_html return: no error status, at least 2000
\* characters, none of the four marker phrases in its lowercased text
Acceptable(resp) ==
    /\ ~resp.exc
    /\ resp.status < 400
    /\ resp.body.len >= 2000
    /\ \A i \in 1..Len(resp.body.elems) : \A s \in SUSPICIOUS_MARKERS :
          ~Contains(Lower(ElemText(resp.body.elems[i])), s)
\* C2: fetch_html returns a page only from an attempt whose reply is
\* acceptable; an attempt whose reply is not is treated as failed (followed by
\* a sleep) and never returned; and the first acceptable reply ends the fetch
\* at once: it is returned by the attempt that received it, with no sleep
\* after it.
C2_ReturnsOnlyAcceptedPage ==
    \A t \in Threads :
        requests[t] > 0 =>
            /\ (pc[t] = "scrape" =>
                    /\ Acceptable(Val(last_resp[t]))
                    /\ html[t] = Some(Val(last_resp[t]).body)
                    /\ attempt[t] = requests[t]
                    /\ Len(sleeps[t]) = requests[t] - 1)
            /\ (pc[t] \in {"fetch", "except"} =>
                    /\ ~Acceptable(Val(last_resp[t]))
                    /\ IsNone(html[t])
                    /\ Len(sleeps[t]) = requests[t])
\* the third attempt returned a page after two rejected ones
C2_Witness ==
    /\ pc["monitor"] = "scrape"
    /\ requests["monitor"] = 3
    /\ Len(sleeps["monitor"]) = 2
    /\ ~IsNone(html["monitor"])

\* summarize_result has returned in thread t
Evaluated(t) == ~IsNone(summary[t])
\* the qualifying (future, keyword-matching) records of thread t, in order
QualifyingRecords(t) ==
    SelectSeq(Val(records[t]), LAMBDA r : Qualifies(r, Val(now_dt[t])))
ClassesOf(recs) == {Classify(recs[i]) : i \in 1..Len(recs)}
\* C3: no qualifying record gives 'UNKNOWN (no match)'; one distinct
\* classification gives that classification; more than one gives 'MIXED';
\* ' (<count> intakes)' is appended exactly when more than one record
\* qualifies; specific_matches_count is the number of qualifying records.
C3_RollUp ==
    \A t \in Threads :
        Evaluated(t) =>
            LET q == QualifyingRecords(t)
                classes == ClassesOf(q)
                s == Val(summary[t])
                suffix == <<SP, "(", StrOf(Len(q)), SP, "intakes", ")">>
            IN /\ s.specific_matches_count = Len(q)
               /\ (Len(q) = 0 =>
                      s.specific_status = <<"UNKNOWN", SP, "(", "no", SP, "match", ")">>)
               /\ (Len(q) = 1 => s.specific_status = <<Classify(q[1])>>)
               /\ (Len(q) > 1 /\ Cardinality(classes) = 1 =>
                      s.specific_status = <<Classify(q[1])>> \o suffix)
               /\ (Len(q) > 1 /\ Cardinality(classes) > 1 =>
                      s.specific_status = <<"MIXED">> \o suffix)
\* one OPEN and one FULL target intake gave 'MIXED (2 intakes)'
C3_Witness ==
    /\ Evaluated("monitor")
    /\ ClassesOf(QualifyingRecords("monitor")) = {"OPEN", "FULL"}
    /\ Val(summary["monitor"]).specific_status
          = <<"MIXED", SP, "(", "2", SP, "intakes", ")">>

\* C4: a qualifying record is 'FULL' if is_full; otherwise 'OPEN' if
\* seats_left is present or status_text contains 'seats left' in any case;
\* otherwise 'UNKNOWN'.  Seen where exactly one record qualifies, so that
\* specific_status is that record's classification.
C4_FullTakesPrecedence ==
    \A t \in Threads :
        Evaluated(t) /\ Len(QualifyingRecords(t)) = 1 =>
            LET r == QualifyingRecords(t)[1]
                status == Val(summary[t]).specific_status
            IN /\ (r.is_full => status = <<"FULL">>)
               /\ (~r.is_full /\ (~IsNone(r.seats_left)
                                  \/ Contains(Lower(r.status_text), <<"seats", SP, "left">>))
                      => status = <<"OPEN">>)
               /\ (~r.is_full /\ IsNone(r.seats_left)
                   /\ ~Contains(Lower(r.status_text), <<"seats", SP, "left">>)
                      => status = <<"UNKNOWN">>)
\* the one qualifying record sets is_full and seats_left, and the status is FULL
C4_Witness ==
    /\ Evaluated("monitor")
    /\ Len(QualifyingRecords("monitor")) = 1
    /\ QualifyingRecords("monitor")[1].is_full
    /\ ~IsNone(QualifyingRecords("monitor")[1].seats_left)
    /\ Val(summary["monitor"]).specific_status = <<"FULL">>

\* the record has a start date and it is strictly after the date `today`
StartsAfter(r, today) ==
    /\ ~IsNone(r.start_date_iso)
    /\ ~IsNone(FromIsoDate(Val(r.start_date_iso)))
    /\ DateLT(today, Val(FromIsoDate(Val(r.start_date_iso))))
\* C5: a record whose start date is absent or not strictly after the current
\* time contributes nothing: without all such records the summary is the same.
C5_PastAndUndatedIgnored ==
    \A t \in Threads :
        Evaluated(t) =>
            Val(summary[t]) =
                summarize_result(
                    SelectSeq(Val(records[t]), LAMBDA r : StartsAfter(r, Val(now_dt[t]))),
                    Val(now_dt[t]))
\* an open target intake that starts today and an undated one: nothing found
C5_Witness ==
    /\ Evaluated("monitor")
    /\ Len(Val(records["monitor"])) = 2
    /\ \E i \in 1..2 : LET r == Val(records["monitor"])[i] IN
          /\ r.start_date_iso = Some(IsoDate(Val(now_dt["monitor"])))
          /\ ~IsNone(r.seats_left) /\ MatchesKeyword(r)
    /\ \E i \in 1..2 : IsNone(Val(records["monitor"])[i].start_date_iso)
    /\ Val(summary["monitor"]).specific_matches_count = 0
    /\ Val(summary["monitor"]).pre_april_list = <<>>

\* the record belongs in the pre-cutoff list
PreCutoffOpen(r, today) ==
    /\ StartsAfter(r, today)
    /\ Val(FromIsoDate(Val(r.start_date_iso)))[1] = CHECK_PRE_APRIL_YEAR
    /\ Val(FromIsoDate(Val(r.start_date_iso)))[2] <= 3
    /\ (~IsNone(r.seats_left) \/ Contains(Lower(r.status_text), <<"seats", SP, "left">>))
\* C6: the pre-cutoff list holds, in record order, exactly one entry
\* '<date_text>: <status_text>' for each future record of the cutoff year that
\* starts in a month up to March and shows open-seat evidence, whatever its
\* keywords and its is_full flag.
C6_PreCutoffList ==
    \A t \in Threads :
        Evaluated(t) =>
            LET open == SelectSeq(Val(records[t]),
                                  LAMBDA r : PreCutoffOpen(r, Val(now_dt[t])))
            IN Val(summary[t]).pre_april_list =
                   [i \in 1..Len(open) |->
                       open[i].date_text \o <<":", SP>> \o open[i].status_text]
\* two entries, the second for a full record that matches no keyword
C6_Witness ==
    /\ Evaluated("monitor")
    /\ Len(Val(summary["monitor"]).pre_april_list) = 2
    /\ LET r == Val(records["monitor"])[2] IN
          /\ r.is_full /\ ~MatchesKeyword(r)
          /\ Val(summary["monitor"]).pre_april_list[2]
                = r.date_text \o <<":", SP>> \o r.status_text

\* run_check_once has returned in thread t, by its success or its failure path
ReturnedOk(t) == pc[t] = "returned" /\ IsNone(err[t])
ReturnedFailed(t) == pc[t] = "returned" /\ ~IsNone(err[t])
Sent(t, kind) == \E i \in 1..Len(alerts[t]) : alerts[t][i] = kind

\* C7: in a successful check a seat alert is sent if anything is open:
\* send_alert is called whenever at least one future keyword-matching record
\* is classified OPEN or the pre-April list is not empty, and is not called
\* when neither holds.
C7_SeatAlertIfAnythingOpen ==
    \A t \in Threads :
        ReturnedOk(t) =>
            (Sent(t, "seat") <=>
                \/ \E i \in 1..Len(QualifyingRecords(t)) :
                      Classify(QualifyingRecords(t)[i]) = "OPEN"
                \/ Len(Val(summary[t]).pre_april_list) > 0)

\* the number FAILURE_FILE holds, 0 while it does not exist
PersistedFailures == IF IsNone(failure_file) THEN 0 ELSE IntOf(Val(failure_file))
\* C8: between sequential calls of run_check_once the persisted failure count
\* is the number of failed runs since the most recent successful run: a
\* failed run adds exactly 1 and a successful run resets it to 0.
C8_CountIsConsecutiveFailures ==
    (\A t \in Threads : ~InFlight(t)) => PersistedFailures = consecutive
\* a success, then two failed runs: the file holds 2
C8_Witness ==
    /\ \A t \in Threads : ~InFlight(t)
    /\ ~IsNone(last_success)
    /\ consecutive = 2
    /\ PersistedFailures = 2

C10_LastSuccessAndHealth ==
    [][ /\ (status_file' # status_file =>
                \E t \in Threads :
                    /\ ~IsNone(html[t]) /\ ~IsNone(records[t]) /\ ~IsNone(summary[t])
                    /\ IsNone(err[t]) /\ IsNone(err'[t])
                    /\ InFlight(t)
                    /\ FromIsoNow(Val(status_file')) = Some(clock))
        /\ (\A t \in Threads : ~IsNone(err[t]) /\ InFlight(t) /\ pc'[t] # pc[t]
                => status_file' = status_file)
        /\ (http_resp' # http_resp /\ http_resp'.route = "health" =>
                http_resp'.code =
                    IF ~IsNone(last_success) /\ clock - Val(last_success) <= STALE_AFTER_SEC
                    THEN 200 ELSE 500)
      ]_vars
\* after a success and a later failed run, /health has answered 500 for a
\* timestamp older than STALE_AFTER_SEC
C10_Witness ==
    /\ http_resp = Respond("health", 500)
    /\ ~IsNone(last_success)
    /\ status_file = Some(IsoNow(Val(last_success)))
    /\ clock - Val(last_success) > STALE_AFTER_SEC
    /\ consecutive > 0

\* SpecConc: the monitor thread and one request thread as the code runs them,
\* with no order between their calls of run_check_once: the request thread
\* may start a check while the monitor is in one, and the other way round.
ConcResponses == {HttpReply(200, PageChallenge), HttpReply(200, PageFull)}
InitConc == Init /\ test_token = "s3cret"
RunStepConc(t) ==
    \/ Attempt(t, ConcResponses, Jitters)
    \/ Scrape(t)
    \/ Summarize(t)
    \/ UpdateStatus(t)
    \/ ResetCount(t)
    \/ SeatAlert(t)
    \/ Except(t)
    \/ SetCount(t)
    \/ ErrorAlert(t)
NextConc ==
    \/ MonitorBoot
    \/ MonitorCheck
    \/ MonitorSleep
    \/ ScrapeAndEmailCheck
    \/ ScrapeAndEmailRespond
    \/ \E t \in Threads : RunStepConc(t)
SpecConc == InitConc /\ [][NextConc]_vars

\* C11: at most one call of run_check_once is in flight at any time: a check
\* started by /scrape-and-email never overlaps a check of the monitor loop.
C11_AtMostOneRunInFlight ==
    Cardinality({t \in Threads : InFlight(t)}) <= 1

\* SpecScrape: scrape_level4_rows on every document of up to MaxElems
\* elements over the headings and tables below, and on every table of up to
\* MaxTableRows rows over the rows below, under a matching heading.
TABLE_2027 == Table(<<HeaderRow, <<STATUS_6_LEFT, DATES_JAN_2027>> >>)
TABLE_2026 == Table(<<HeaderRow, <<STATUS_FULL, DATES_JAN_2026>> >>)
TABLE_UNDATED == Table(<<HeaderRow, <<STATUS_WAITLIST, DATES_TBA>> >>)
ScrapeElems ==
    {LevelHeading, LevelHeadingCaps,
     Heading("h1", Words(<<"Level", "04">>)), Heading("h4", <<"Schedule">>),
     TABLE_2027, TABLE_2026, TABLE_UNDATED}
ScrapeDocs == UNION {[1..k -> ScrapeElems] : k \in 0..MaxElems}
ScrapeRowPool ==
    { <<STATUS_6_LEFT, DATES_JAN_2027>>, <<STATUS_FULL, DATES_JAN_2026_RAGGED>>,
      <<STATUS_WAITLIST>>, <<>>,
      <<STATUS_SEATS_LEFT, DATES_MAR_2026, <<"TBA">> >>,
      <<STATUS_6_LEFT, DATES_FEB_30>> }
ScrapeTables == UNION {[1..k -> ScrapeRowPool] : k \in 0..MaxTableRows}
ScrapePages ==
    {Page(d) : d \in ScrapeDocs}
    \cup {Page(<<LevelHeading, Table(rows)>>) : rows \in ScrapeTables}
InitScrape ==
    /\ clock = 0
    /\ status_file = None
    /\ failure_file = None
    /\ started_flag = TRUE
    /\ last_error_html = None
    /\ test_token = ""
    /\ consecutive = 0
    /\ last_success = None
    /\ http_resp = NoResponse
    /\ http_req = NoRequest
    /\ pc = [t \in Threads |-> IF t = "monitor" THEN "scrape" ELSE "idle"]
    /\ \E page \in ScrapePages :
        /\ html = [t \in Threads |-> IF t = "monitor" THEN Some(page) ELSE None]
        /\ last_resp = [t \in Threads |->
                          IF t = "monitor" THEN Some(HttpReply(200, page)) ELSE None]
    /\ attempt = [t \in Threads |-> IF t = "monitor" THEN 1 ELSE 0]
    /\ requests = [t \in Threads |-> IF t = "monitor" THEN 1 ELSE 0]
    /\ last_err = [t \in Threads |-> UnknownFetchError]
    /\ sleeps = [t \in Threads |-> <<>>]
    /\ records = [t \in Threads |-> None]
    /\ now_dt = [t \in Threads |-> None]
    /\ summary = [t \in Threads |-> None]
    /\ n = [t \in Threads |-> 0]
    /\ err = [t \in Threads |-> None]
    /\ alerts = [t \in Threads |-> <<>>]
NextScrape == Scrape("monitor")
SpecScrape == InitScrape /\ [][NextScrape]_vars

\* scrape_level4_rows has returned or raised in thread t
Scraped(t) == ~IsNone(html[t]) /\ pc[t] \notin {"fetch", "scrape"}
NoTableError == Some(FetchError("No Level 04 table found", 0))
\* the table the claim names: the index in the document, or None
LabelHeadings(elems) ==
    {i \in 1..Len(elems) :
        /\ elems[i].tag \in {"h2", "h3", "h4"}
        /\ Contains(Lower(elems[i].text), <<"level", SP, "04">>)}
TableIndexes(elems) == {j \in 1..Len(elems) : elems[j].tag = "table"}
DatedTables(elems) ==
    {j \in TableIndexes(elems) :
        \E r \in 1..Len(elems[j].rows) : \E c \in 1..Len(elems[j].rows[r]) :
            \E i \in 1..(Len(elems[j].rows[r][c]) - 2) :
                LET text == elems[j].rows[r][c] IN
                /\ LowerTok(text[i]) \in DOMAIN MonthMap
                /\ IsSpace(text[i + 1])
                /\ IsDigits(text[i + 2]) /\ NumDigits(text[i + 2]) <= 2}
PriorityTable(elems) ==
    LET followed == {h \in LabelHeadings(elems) :
                        \E j \in TableIndexes(elems) : j > h}
    IN IF followed # {}
       THEN LET h == CHOOSE x \in followed : \A y \in followed : x <= y
                after == {j \in TableIndexes(elems) : j > h}
            IN Some(CHOOSE j \in after : \A k \in after : j <= k)
       ELSE IF DatedTables(elems) # {}
            THEN Some(CHOOSE j \in DatedTables(elems) :
                         \A k \in DatedTables(elems) : j <= k)
       ELSE None
\* C12: find_level_table works in strict priority: the first table after the
\* first h2-h4 heading that contains the level label in any case and is
\* followed by a table, even when an earlier table is date-shaped; failing
\* that, the first date-shaped table of the document; failing both, None, and
\* scrape_level4_rows raises 'No Level 04 table found'.  The rows parsed are
\* those of that table.
C12_LocatorPriority ==
    \A t \in Threads :
        Scraped(t) =>
            LET elems == Val(html[t]).elems
                want == PriorityTable(elems)
            IN /\ find_level_table(Val(html[t])) = want
               /\ (IsNone(want) <=> err[t] = NoTableError)
               /\ (~IsNone(want) /\ IsNone(err[t]) =>
                      LET rows == elems[Val(want)].rows
                      IN records[t] =
                           Some(ScrapeRows(IF Len(rows) = 0 THEN <<>> ELSE Tail(rows),
                                           DateOf(clock)).records))
\* a date-shaped table, then the heading in capitals, then another table: the
\* rows parsed are those of the table after the heading
C12_Witness ==
    /\ Scraped("monitor")
    /\ Val(html["monitor"]).elems = <<TABLE_2026, LevelHeadingCaps, TABLE_2027>>
    /\ IsNone(err["monitor"])
    /\ Len(Val(records["monitor"])) = 1
    /\ Val(records["monitor"])[1].status_text = STATUS_6_LEFT

\* C13: when no table is located the run fails with no further request of
\* that run, and the whole fetched page is in last_error.html before
\* run_check_once returns; when a table is located last_error.html is left as
\* it was.
C13_MissingTableCapturedNotRetried ==
    [][ \A t \in Threads :
          /\ (pc[t] = "scrape" /\ pc'[t] # "scrape" =>
                IF IsNone(PriorityTable(Val(html[t]).elems))
                THEN /\ last_error_html' = html[t]
                     /\ pc'[t] = "except"
                     /\ err'[t] = NoTableError
                ELSE last_error_html' = last_error_html)
          /\ (pc[t] # "scrape" /\ pc'[t] # pc[t] => last_error_html' = last_error_html)
          /\ (InFlight(t) /\ err[t] = NoTableError =>
                /\ pc'[t] # "fetch"
                /\ requests'[t] <= requests[t])
          /\ (ReturnedFailed(t) /\ err[t] = NoTableError =>
                last_error_html = html[t])
      ]_vars
\* a check of a page with no table has returned: the page is in the file
C13_Witness ==
    \E t \in Threads :
        /\ ReturnedFailed(t)
        /\ err[t] = NoTableError
        /\ html[t] = Some(PageNoTable)
        /\ last_error_html = Some(PageNoTable)

\* the date texts of the rows scrape_level4_rows parses in a page
DateTextsOf(page) ==
    LET table == PriorityTable(page.elems) IN
    IF IsNone(table) THEN {}
    ELSE LET rows == page.elems[Val(table)].rows
         IN {rows[i][2] : i \in {k \in 2..Len(rows) : Len(rows[k]) >= 2}}
\* C14: parse_date_span raises for no text: a text that gives no valid
\* calendar date, 'Feb 30 to Mar 20, 2026' among them, gives (None, None,
\* None), so that no row aborts scrape_level4_rows.
C14_DateParserNeverRaises ==
    \A t \in Threads :
        ~IsNone(html[t]) =>
            /\ \A text \in DateTextsOf(Val(html[t])) :
                  ~parse_date_span(text, DateOf(clock)).raised
            /\ (~IsNone(err[t]) => Val(err[t]).type # "ParserError")

\* C15: no record of scrape_level4_rows has is_full set together with a
\* positive seats_left.
C15_FullAndSeatsExclusive ==
    \A t \in Threads :
        ~IsNone(records[t]) =>
            \A i \in 1..Len(Val(records[t])) :
                LET r == Val(records[t])[i] IN
                ~(r.is_full /\ ~IsNone(r.seats_left) /\ Val(r.seats_left) > 0)

\* the rows after the first that have two cells or more, in table order
DataRows(rows) ==
    IF Len(rows) = 0 THEN <<>>
    ELSE SelectSeq(Tail(rows), LAMBDA r : Len(r) >= 2)
\* C16: scrape_level4_rows gives exactly one record for each row after the
\* first that has at least two cells, in row order, made of the texts of the
\* row's first two cells; the first row gives none whatever it holds, and a
\* row of fewer than two cells gives none.
C16_OneRecordPerDataRow ==
    \A t \in Threads :
        Scraped(t) /\ ~IsNone(PriorityTable(Val(html[t]).elems)) =>
            LET elems == Val(html[t]).elems
                want == DataRows(elems[Val(PriorityTable(elems))].rows)
            IN /\ ~IsNone(records[t])
               /\ Len(Val(records[t])) = Len(want)
               /\ \A i \in 1..Len(want) :
                     /\ Val(records[t])[i].status_text = want[i][1]
                     /\ Val(records[t])[i].date_text = NormalizeDateText(want[i][2])

\* C17: fetch_html sleeps only before a retry: after failed attempt k it
\* sleeps once, at least 2k and less than 2k + 1.5 seconds, and then makes
\* attempt k + 1; a fetch that fails all max_attempts attempts has slept
\* max_attempts - 1 times when it fails.
C17_SleepOnlyBeforeRetry ==
    \A t \in Threads :
        /\ \A k \in 1..Len(sleeps[t]) :
              sleeps[t][k] >= 20 * k /\ sleeps[t][k] < 20 * k + 15
        /\ (pc[t] = "fetch" => Len(sleeps[t]) = attempt[t] - 1)
        /\ (pc[t] = "except" /\ requests[t] > 0 =>
              Len(sleeps[t]) = DefaultMaxAttempts - 1)

\* SpecFaulty: the two threads as under SpecConc, with state files that may
\* refuse a write (a read-only or full file system): open(..., "w") raises
\* OSError and the file is left as it was.
WriteError == Some(FetchError("OSError", 0))
\* update_status_file() raises: into the except clause
UpdateStatusFails(t) ==
    /\ pc[t] = "update_status"
    /\ err' = [err EXCEPT ![t] = WriteError]
    /\ pc' = [pc EXCEPT ![t] = "except"]
    /\ UNCHANGED <<shared, fetch_locals, html, records, now_dt, summary, n, alerts>>
\* set_failure_count(0) raises: into the except clause
ResetCountFails(t) ==
    /\ pc[t] = "reset_count"
    /\ err' = [err EXCEPT ![t] = WriteError]
    /\ pc' = [pc EXCEPT ![t] = "except"]
    /\ UNCHANGED <<shared, fetch_locals, html, records, now_dt, summary, n, alerts>>
\* set_failure_count(n) raises inside the except clause: the exception leaves
\* run_check_once
SetCountFails(t) ==
    /\ pc[t] = "set_count"
    /\ err' = [err EXCEPT ![t] = WriteError]
    /\ pc' = [pc EXCEPT ![t] = "raised"]
    /\ UNCHANGED <<shared, fetch_locals, html, records, now_dt, summary, n, alerts>>
\* monitor_loop has no handler around run_check_once(): the thread ends
MonitorDies ==
    /\ pc["monitor"] = "raised"
    /\ pc' = [pc EXCEPT !["monitor"] = "dead"]
    /\ UNCHANGED <<shared, fetch_locals, run_locals>>
\* scrape_and_email has none either: Flask answers 500
ScrapeAndEmailRaises ==
    /\ pc["http"] = "raised"
    /\ http_resp' = Respond("scrape-and-email", 500)
    /\ pc' = [pc EXCEPT !["http"] = "idle"]
    /\ RunLocalsGone("http")
    /\ UNCHANGED <<clock, status_file, failure_file, started_flag, last_error_html,
                   test_token, consecutive, last_success, http_req>>
    /\ UNCHANGED fetch_locals
NextFaulty ==
    \/ NextConc
    \/ \E t \in Threads : UpdateStatusFails(t)
    \/ \E t \in Threads : ResetCountFails(t)
    \/ \E t \in Threads : SetCountFails(t)
    \/ MonitorDies
    \/ ScrapeAndEmailRaises
SpecFaulty == InitConc /\ [][NextFaulty]_vars

\* C18: every call of run_check_once returns: no failure of fetching, table
\* location, parsing, evaluation, state-file writing or alert sending leaves
\* it as an exception, so the monitor thread never ends.
C18_RunCheckOnceNeverRaises ==
    \A t \in Threads : pc[t] \notin {"raised", "dead"}

\* C19: the failure counter loses no update when checks overlap: every write
\* of a failed run leaves the persisted count one higher than it was just
\* before the write, so that two overlapping failed runs add 2 and a stale
\* count never replaces the 0 of a run that succeeded in between.
C19_NoLostFailureUpdate ==
    [][ \A t \in Threads :
          pc[t] = "set_count" /\ pc'[t] = "error_alert" =>
              get_failure_count(failure_file') = get_failure_count(failure_file) + 1
      ]_vars

\* the request carries the configured token and one is configured
Authorized(req) == test_token # "" /\ req.token = test_token
\* C20: /smtp-test and /scrape-and-email answer 403 and fetch nothing, write
\* no state file and send no mail unless TEST_TOKEN is non-empty and the
\* token of the request equals it; with TEST_TOKEN unset every request is
\* refused, the one with an empty token too.
C20_TokenGuardsEndpoints ==
    [][ ( /\ pc["http"] = "idle"
          /\ (http_req' # http_req \/ http_resp' # http_resp \/ pc'["http"] # "idle")
          /\ http_req'.route \in {"smtp-test", "scrape-and-email"}
          /\ ~Authorized(http_req') )
        => /\ http_resp' = [route |-> http_req'.route, code |-> 403]
           /\ pc'["http"] = "idle"
           /\ requests' = requests
           /\ alerts' = alerts
           /\ UNCHANGED <<status_file, failure_file, last_error_html, started_flag>>
      ]_vars
\* TEST_TOKEN is unset and a request with an empty token was refused
C20_Witness ==
    /\ test_token = ""
    /\ http_req = [route |-> "scrape-and-email", token |-> ""]
    /\ http_resp = [route |-> "scrape-and-email", code |-> 403]
    /\ pc["http"] = "idle"

====
